---- MODULE Spec2Model ----
(***************************************************************************)
(* Parking-Lots (src/main.py): the spot-allocation and ticket-lifecycle    *)
(* engine.  State: every Spot's _vehicle and _has_been_booked, the Ticket  *)
(* and ParkingHistory objects created so far, the AvailableSpots index,    *)
(* the ParkingHistoryStore, the wall clock read by datetime.now(), and the *)
(* outcome of the last call made by a client of the library.               *)
(*                                                                         *)
(* A call that raises stops where Python stops it: the assignments made    *)
(* before the raise are kept, the ones after it never happen.              *)
(***************************************************************************)
EXTENDS Integers, Sequences, FiniteSets, TLC

\* ---------------------------------------------------------------- bounds
MaxTickets == 2
MaxHistories == 2
MaxTime == 120
NumCallers == 3

\* ------------------------------------------------------ program constants
\* timedelta.seconds is the seconds field of the normalised timedelta
\* (days, seconds, microseconds) with 0 <= seconds < 86400.
SecondsPerDay == 86400
\* The divisor of calculate_fee: fee_per_minute is charged per 60 seconds.
SecondsPerMinute == 60

None == -1

\* The lot of the model: one regular_car spot; the vehicles that arrive:
\* a regular car (1) and a cycle (2).
Spots == {1}
Vehicles == {1, 2}
Durations == {120}

\* SpotTypeEnum values used by the spots and vehicles of the model.
SpotTypeEnum == {"cycle", "regular_car"}

\* Spot._spot_type / Vehicle.vehicle_type: fixed at construction.
spot_type(s) == IF s % 2 = 1 THEN "regular_car" ELSE "cycle"
vehicle_type(v) == IF v % 2 = 1 THEN "regular_car" ELSE "cycle"

\* SpotFee(base_fee, fee_per_minute), both in hundredths of the currency
\* unit (round(x, 2) keeps two decimal places): 2.0 and 0.5, and 0.0 and 1.0.
SpotFees == {[base_fee |-> 200, fee_per_minute |-> 50],
             [base_fee |-> 0, fee_per_minute |-> 100]}

VARIABLES
    has_been_booked,        \* Spot._has_been_booked, per spot
    spot_vehicle,           \* Spot._vehicle, per spot (None or a vehicle)
    tickets,                \* the Ticket objects, in order of construction
    histories,              \* the ParkingHistory objects, by object id
    available_spots,        \* AvailableSpots.available_spots: type -> set of objects
    parking_history_store,  \* ParkingHistoryStore.parking_history_store (history ids)
    exited,                 \* tickets on which Ticket.exit() ran to its end
    lot,                    \* ParkingLot.__init__: "unbuilt", "built" or the error raised
    now,                    \* datetime.datetime.now(), in whole seconds
    last,                   \* the last call: operation, arguments, exception, return value
    calls                   \* per concurrent caller of create_ticket: where it stands in the call

vars == <<has_been_booked, spot_vehicle, tickets, histories, available_spots,
          parking_history_store, exited, lot, now, last, calls>>

\* The objects a set of the index can hold: the code adds SpotHierarchy
\* objects in ParkingLot.__init__ and Spot objects in notify_exit.
SpotObj(s) == <<"Spot", s>>
SpotHierarchyObj(s) == <<"SpotHierarchy", s>>

\* A ParkingHistory id that no object holds; Python frees a ParkingHistory
\* once no Ticket and no store refers to it.
Unallocated == [vehicle |-> None, spot |-> None, from_time |-> None, to_time |-> None]

HistoryIds == 1..MaxHistories

\* The threads that call TicketManager.create_ticket at the same time.
Callers == 1..NumCallers

\* A caller that has not called yet.
Idle == [pc |-> "idle", vehicle |-> None, spot |-> None, raised |-> "none", ret |-> None]

Call(op, v, s, t, raised, ret) ==
    [op |-> op, vehicle |-> v, spot |-> s, ticket |-> t, raised |-> raised, ret |-> ret]

Init ==
    /\ has_been_booked = [s \in Spots |-> FALSE]
    /\ spot_vehicle = [s \in Spots |-> None]
    /\ tickets = <<>>
    /\ histories = [h \in HistoryIds |-> Unallocated]
    /\ available_spots = [ty \in SpotTypeEnum |-> {}]
    /\ parking_history_store = {}
    /\ exited = {}
    /\ lot = "unbuilt"
    /\ now = 0
    /\ last = Call("none", None, None, None, "none", None)
    /\ calls = [c \in Callers |-> Idle]

\* ------------------------------------------------------------------ Spot
\* is_available without the booked flag.
is_available_ignoring_booking(s) == spot_vehicle[s] = None

\* Spot.is_available (property).
is_available(s) == spot_vehicle[s] = None /\ ~has_been_booked[s]

\* Spot.book(self): the method takes no argument besides self, so a call
\* that passes nargs > 0 positional arguments raises TypeError before the
\* body runs; with none it sets the flag, whatever the spot's state.
Spot_book(s, nargs) ==
    IF nargs # 0
    THEN [raised |-> "TypeError", has_been_booked |-> has_been_booked]
    ELSE [raised |-> "none",
          has_been_booked |-> [has_been_booked EXCEPT ![s] = TRUE]]

\* Spot.park_vehicle(vehicle).
Spot_park_vehicle(s, v) == [spot_vehicle EXCEPT ![s] = v]

\* Spot.remove_vehicle(vehicle): clears both fields, whatever they were.
Spot_remove_vehicle(s) ==
    [spot_vehicle |-> [spot_vehicle EXCEPT ![s] = None],
     has_been_booked |-> [has_been_booked EXCEPT ![s] = FALSE]]

\* A client calls spot.book() itself.
SpotBook(s) ==
    LET b == Spot_book(s, 0) IN
    /\ has_been_booked' = b.has_been_booked
    /\ last' = Call("book", None, s, None, b.raised, None)
    /\ UNCHANGED <<spot_vehicle, tickets, histories, available_spots,
                   parking_history_store, exited, lot, now, calls>>

\* ---------------------------------------------------------------- Ticket
\* Ticket.__init__(vehicle, spot).
NewTicket(v, s) ==
    [vehicle |-> v, spot |-> s, parking_history |-> None,
     parked_at |-> None, exit_at |-> None]

\* Ticket.spot (property): its body reads self.spot, the property itself,
\* so every read recurses until Python raises RecursionError.
Ticket_spot(t) == [raised |-> "RecursionError", value |-> None]

\* Ticket.parking_history (property).
Ticket_parking_history(t) == tickets[t].parking_history

\* A client constructs a Ticket itself, Ticket(vehicle=v, spot=s), for a
\* vehicle of the spot's type.
TicketInit(v, s) ==
    /\ Len(tickets) < MaxTickets
    /\ vehicle_type(v) = spot_type(s)
    /\ tickets' = Append(tickets, NewTicket(v, s))
    /\ last' = Call("Ticket", v, s, None, "none", Len(tickets) + 1)
    /\ UNCHANGED <<has_been_booked, spot_vehicle, histories, available_spots,
                   parking_history_store, exited, lot, now, calls>>

\* -------------------------------------------------------- AvailableSpots
\* AvailableSpots.add_to_available_spots(spot): set.add.
add_to_available_spots(s) ==
    [available_spots EXCEPT ![spot_type(s)] = @ \cup {SpotObj(s)}]

\* AvailableSpots.remove_from_available_spots(spot): set.remove raises
\* KeyError when the object is not a member.
remove_from_available_spots(s) ==
    IF SpotObj(s) \in available_spots[spot_type(s)]
    THEN [raised |-> "none",
          available_spots |-> [available_spots EXCEPT ![spot_type(s)] = @ \ {SpotObj(s)}]]
    ELSE [raised |-> "KeyError", available_spots |-> available_spots]

\* --------------------------------------------------------- TicketManager
\* The check of create_ticket without the comparison of the types.
create_ticket_rejects_unavailable_only(v, s) == ~is_available(s)

\* The condition under which create_ticket raises Exception (line 238).
create_ticket_rejects(v, s) ==
    vehicle_type(v) # spot_type(s) \/ ~is_available(s)

\* create_ticket booking the spot before it checks the request.
create_ticket_booking_first(v, s) ==
    LET b == Spot_book(s, 0) IN
    IF create_ticket_rejects(v, s)
    THEN [raised |-> "Exception", has_been_booked |-> b.has_been_booked, returns |-> FALSE]
    ELSE [raised |-> "none", has_been_booked |-> b.has_been_booked, returns |-> TRUE]

\* TicketManager.create_ticket(vehicle, spot): the exception raised, the
\* booked flags it leaves, and whether a Ticket is constructed and returned.
\* Past the check it calls spot.book(vehicle), one argument more than
\* Spot.book takes.
create_ticket_outcome(v, s) ==
    IF create_ticket_rejects(v, s)
    THEN [raised |-> "Exception", has_been_booked |-> has_been_booked, returns |-> FALSE]
    ELSE LET b == Spot_book(s, 1) IN
         [raised |-> b.raised, has_been_booked |-> b.has_been_booked,
          returns |-> (b.raised = "none")]

create_ticket(v, s) ==
    LET r == create_ticket_outcome(v, s) IN
    /\ has_been_booked' = r.has_been_booked
    /\ IF r.returns
       THEN /\ Len(tickets) < MaxTickets
            /\ tickets' = Append(tickets, NewTicket(v, s))
            /\ last' = Call("create_ticket", v, s, None, r.raised, Len(tickets) + 1)
       ELSE /\ tickets' = tickets
            /\ last' = Call("create_ticket", v, s, None, r.raised, None)
    /\ UNCHANGED <<spot_vehicle, histories, available_spots,
                   parking_history_store, exited, lot, now, calls>>

\* The ParkingHistory objects that stay referenced when ticket t lets go of
\* its own: those of the other tickets and those in the store.
referenced_histories(t) ==
    ({tickets[u].parking_history : u \in (1..Len(tickets)) \ {t}} \ {None})
        \cup parking_history_store

\* The id of the ParkingHistory constructed when ticket t parks: the first
\* one no object holds.
new_history(t) ==
    CHOOSE h \in HistoryIds \ referenced_histories(t) :
        \A g \in HistoryIds \ referenced_histories(t) : h <= g

\* TicketManager._entry_notify(ticket), for a ticket whose ParkingHistory is
\* h: first notify_park(ticket.spot) on the observer of the index, then
\* notify(ticket.parking_history) on the observer of the store. done lists
\* the notifications delivered, in order, before the call returned or
\* raised.
entry_notify(t, h) ==
    LET sp == Ticket_spot(t) IN
    IF sp.raised # "none"
    THEN [raised |-> sp.raised, done |-> <<>>,
          available_spots |-> available_spots,
          parking_history_store |-> parking_history_store]
    ELSE LET rm == remove_from_available_spots(sp.value) IN
         IF rm.raised # "none"
         THEN [raised |-> rm.raised, done |-> <<>>,
               available_spots |-> available_spots,
               parking_history_store |-> parking_history_store]
         ELSE [raised |-> "none", done |-> <<"notify_park", "notify">>,
               available_spots |-> rm.available_spots,
               parking_history_store |-> parking_history_store \cup {h}]

\* TicketManager.park(ticket): ticket.park() stamps parked_at and constructs
\* the ParkingHistory, whose constructor parks the vehicle on the spot; then
\* _entry_notify reads ticket.spot for the index and, after it, hands
\* ticket.parking_history to the store.
park(t) ==
    /\ t \in 1..Len(tickets)
    /\ HistoryIds \ referenced_histories(t) # {}
    /\ LET tk == tickets[t]
           h == new_history(t)
           en == entry_notify(t, h)
       IN
       /\ tickets' = [tickets EXCEPT ![t] = [@ EXCEPT !.parked_at = now,
                                                      !.parking_history = h]]
       /\ histories' = [i \in HistoryIds |->
                            IF i = h
                            THEN [vehicle |-> tk.vehicle, spot |-> tk.spot,
                                  from_time |-> now, to_time |-> None]
                            ELSE IF i \in referenced_histories(t)
                            THEN histories[i]
                            ELSE Unallocated]
       /\ spot_vehicle' = Spot_park_vehicle(tk.spot, tk.vehicle)
       /\ available_spots' = en.available_spots
       /\ parking_history_store' = en.parking_history_store
       /\ last' = Call("park", None, None, t, en.raised, None)
    /\ UNCHANGED <<has_been_booked, exited, lot, now, calls>>

\* TicketManager.exit(ticket): ticket.exit() stamps exit_at, then calls
\* self._parking_history.exit(), an AttributeError when the ticket has no
\* history; ParkingHistory.exit stamps to_time and frees the spot; then
\* _exit_notify reads ticket.spot for the index.
exit(t) ==
    /\ t \in 1..Len(tickets)
    /\ LET tk == tickets[t]
           h == Ticket_parking_history(t)
           sp == Ticket_spot(t)
           freed == Spot_remove_vehicle(tk.spot)
       IN
       /\ tickets' = [tickets EXCEPT ![t] = [@ EXCEPT !.exit_at = now]]
       /\ IF h = None
          THEN /\ UNCHANGED <<histories, spot_vehicle, has_been_booked, exited,
                              available_spots>>
               /\ last' = Call("exit", None, None, t, "AttributeError", None)
          ELSE /\ histories' = [histories EXCEPT ![h] = [@ EXCEPT !.to_time = now]]
               /\ spot_vehicle' = freed.spot_vehicle
               /\ has_been_booked' = freed.has_been_booked
               /\ exited' = exited \cup {t}
               /\ IF sp.raised # "none"
                  THEN /\ UNCHANGED available_spots
                       /\ last' = Call("exit", None, None, t, sp.raised, None)
                  ELSE /\ available_spots' = add_to_available_spots(sp.value)
                       /\ last' = Call("exit", None, None, t, "none", None)
    /\ UNCHANGED <<parking_history_store, lot, now, calls>>

\* --------------------------------------------------------------- SpotFee
\* timedelta.seconds of a difference of d whole seconds: the timedelta is
\* normalised to days and 0 <= seconds < 86400, so a negative difference
\* reads as 86400 minus its size.
timedelta_seconds(d) == d % SecondsPerDay

\* Ticket.calculate_total_parking_time().
calculate_total_parking_time(t) ==
    IF tickets[t].parked_at # None /\ tickets[t].exit_at # None
    THEN [raised |-> "none",
          value |-> timedelta_seconds(tickets[t].parked_at - tickets[t].exit_at)]
    ELSE [raised |-> "Exception", value |-> None]

\* ParkingHistory.get_total_parking_time(), for the ParkingHistory h.
get_total_parking_time(h) ==
    IF histories[h].from_time # None /\ histories[h].to_time # None
    THEN [raised |-> "none",
          value |-> timedelta_seconds(histories[h].to_time - histories[h].from_time)]
    ELSE [raised |-> "Exception", value |-> None]

\* round(n / d) to the nearest integer, halves to the even one, for n >= 0.
round_half_even(n, d) ==
    LET q == n \div d
        r == n % d
    IN IF 2 * r < d THEN q
       ELSE IF 2 * r > d THEN q + 1
       ELSE IF q % 2 = 0 THEN q ELSE q + 1

\* round(seconds * fee_per_minute / 60 + base_fee, 2), in hundredths, for
\* fee_per_minute and base_fee given in hundredths.
fee_formula(fee, seconds) ==
    round_half_even(seconds * fee.fee_per_minute + SecondsPerMinute * fee.base_fee,
                    SecondsPerMinute)

\* SpotFee.calculate_fee(ticket).
calculate_fee_outcome(fee, t) ==
    LET secs == calculate_total_parking_time(t) IN
    IF secs.raised # "none"
    THEN [raised |-> secs.raised, value |-> None]
    ELSE [raised |-> "none", value |-> fee_formula(fee, secs.value)]

calculate_fee(fee, t) ==
    /\ t \in 1..Len(tickets)
    /\ LET r == calculate_fee_outcome(fee, t) IN
       last' = Call("calculate_fee", None, None, t, r.raised, r.value)
    /\ UNCHANGED <<has_been_booked, spot_vehicle, tickets, histories, available_spots,
                   parking_history_store, exited, lot, now, calls>>

\* ------------------------------------------------------------ ParkingLot
\* FeeStructure: fs[ty] is TRUE when the constructor was given a SpotFee for
\* the type and FALSE when it was given None.
FeeStructures == [SpotTypeEnum -> BOOLEAN]

\* self.fee_structure[spot_type] in ParkingLot.__init__: self.fee_structure
\* is the FeeStructure object, a class without __getitem__, so subscripting
\* it raises TypeError (the dict is its attribute of the same name).
FeeStructure_getitem(fs, ty) == [raised |-> "TypeError", value |-> FALSE]

\* The loop of ParkingLot.__init__ over spot_locations, in the order the set
\* yields them: add the SpotHierarchy object (not its spot) to the index
\* under the spot's type, then look the type's fee up.
RECURSIVE spot_locations_loop(_, _, _)
spot_locations_loop(order, fs, index) ==
    IF order = <<>>
    THEN [raised |-> "none", available_spots |-> index]
    ELSE LET s == Head(order)
             added == [index EXCEPT ![spot_type(s)] = @ \cup {SpotHierarchyObj(s)}]
             fee == FeeStructure_getitem(fs, spot_type(s))
         IN IF fee.raised # "none"
            THEN [raised |-> fee.raised, available_spots |-> added]
            ELSE IF ~fee.value
            THEN [raised |-> "Exception", available_spots |-> added]
            ELSE spot_locations_loop(Tail(order), fs, added)

\* The orders in which a set can be iterated.
Orders(S) ==
    {o \in [1..Cardinality(S) -> S] : \A i, j \in 1..Cardinality(S) : o[i] = o[j] => i = j}

\* ParkingLot.__init__ with the model's spots as spot_locations, the given
\* FeeStructure and the AvailableSpots and ParkingHistoryStore of the model.
ParkingLot_init(fs) ==
    /\ lot = "unbuilt"
    /\ \E order \in Orders(Spots) :
         LET r == spot_locations_loop(order, fs, available_spots) IN
         /\ available_spots' = r.available_spots
         /\ lot' = IF r.raised = "none" THEN "built" ELSE r.raised
         /\ last' = Call("ParkingLot", None, None, None, r.raised, None)
    /\ UNCHANGED <<has_been_booked, spot_vehicle, tickets, histories,
                   parking_history_store, exited, now, calls>>

\* The clock advances between calls.
Tick(d) ==
    /\ now + d <= MaxTime
    /\ now' = now + d
    /\ UNCHANGED <<has_been_booked, spot_vehicle, tickets, histories, available_spots,
                   parking_history_store, exited, lot, last, calls>>

Next ==
    \/ \E fs \in FeeStructures : ParkingLot_init(fs)
    \/ \E d \in Durations : Tick(d)
    \/ \E s \in Spots : SpotBook(s)
    \/ \E v \in Vehicles, s \in Spots : TicketInit(v, s)
    \/ \E v \in Vehicles, s \in Spots : create_ticket(v, s)
    \/ \E t \in 1..MaxTickets : park(t)
    \/ \E t \in 1..MaxTickets : exit(t)
    \/ \E fee \in SpotFees, t \in 1..MaxTickets : calculate_fee(fee, t)

Spec == Init /\ [][Next]_vars

\* ------------------------------------- create_ticket called concurrently
\* Caller c enters TicketManager.create_ticket(v, s).
Begin(c, v, s) ==
    /\ calls[c].pc = "idle"
    /\ calls' = [calls EXCEPT ![c] = [pc |-> "check", vehicle |-> v, spot |-> s,
                                      raised |-> "none", ret |-> None]]
    /\ UNCHANGED <<has_been_booked, spot_vehicle, tickets, histories, available_spots,
                   parking_history_store, exited, lot, now, last>>

\* Caller c evaluates the condition of line 238 on the spot as it is now
\* and either raises Exception or goes on to the booking.
Check(c) ==
    /\ calls[c].pc = "check"
    /\ calls' = [calls EXCEPT ![c] =
                     IF create_ticket_rejects(calls[c].vehicle, calls[c].spot)
                     THEN [@ EXCEPT !.pc = "done", !.raised = "Exception"]
                     ELSE [@ EXCEPT !.pc = "book"]]
    /\ UNCHANGED <<has_been_booked, spot_vehicle, tickets, histories, available_spots,
                   parking_history_store, exited, lot, now, last>>

\* Caller c runs lines 240-241: spot.book(vehicle), then the construction
\* and the return of the Ticket when the booking did not raise.
Book(c) ==
    /\ calls[c].pc = "book"
    /\ LET b == Spot_book(calls[c].spot, 1) IN
       /\ has_been_booked' = b.has_been_booked
       /\ IF b.raised = "none"
          THEN /\ Len(tickets) < MaxTickets
               /\ tickets' = Append(tickets, NewTicket(calls[c].vehicle, calls[c].spot))
               /\ calls' = [calls EXCEPT ![c] = [@ EXCEPT !.pc = "done",
                                                          !.ret = Len(tickets) + 1]]
          ELSE /\ tickets' = tickets
               /\ calls' = [calls EXCEPT ![c] = [@ EXCEPT !.pc = "done",
                                                          !.raised = b.raised]]
    /\ UNCHANGED <<spot_vehicle, histories, available_spots,
                   parking_history_store, exited, lot, now, last>>

NextConcurrent ==
    \/ \E c \in Callers, v \in Vehicles, s \in Spots : Begin(c, v, s)
    \/ \E c \in Callers : Check(c)
    \/ \E c \in Callers : Book(c)

\* The callers run on a lot whose spots are all available, each at its own
\* pace.
SpecConcurrent == Init /\ [][NextConcurrent]_vars

\* ================================================================ claims
Tickets == 1..MaxTickets

\* The ticket's stay is open: it has a ParkingHistory whose to_time is unset.
StayOpen(t) ==
    /\ tickets[t].parking_history # None
    /\ histories[tickets[t].parking_history].to_time = None

\* The ticket's stay is closed: it has a ParkingHistory whose to_time is set.
StayClosed(t) ==
    /\ tickets[t].parking_history # None
    /\ histories[tickets[t].parking_history].to_time # None

\* C1: two create_ticket calls back to back on the same spot, no exit
\* between them: when the first one passed the checks of create_ticket (a
\* vehicle of the spot's type, the spot available), the second one, for
\* any vehicle, is rejected by the check and returns no Ticket.
C1_SecondTicketRejected ==
    (last.op = "create_ticket" /\ last.raised # "Exception") =>
        \A v \in Vehicles :
            LET second == create_ticket_outcome(v, last.spot) IN
            second.raised = "Exception" /\ ~second.returns

\* C2: in every reachable state and for every spot, is_available is true
\* exactly when the spot has no occupant and its booked flag is false.
C2_AvailableIffFreeAndUnbooked ==
    \A s \in Spots :
        is_available(s) <=> (spot_vehicle[s] = None /\ has_been_booked[s] = FALSE)

\* A spot that was booked and is not occupied.
C2_Witness ==
    \E s \in Spots :
        /\ has_been_booked[s]
        /\ spot_vehicle[s] = None
        /\ last.op = "book"

\* C3: once the lot has been constructed, and after every create_ticket,
\* park and exit, a Spot is in available_spots[spot.spot_type] if and only
\* if spot.is_available.
C3_IndexIffAvailable ==
    lot # "unbuilt" =>
        \A s \in Spots :
            (SpotObj(s) \in available_spots[spot_type(s)]) <=> is_available(s)

\* C4: after TicketManager.park(ticket) the ticket's spot is not in the
\* index under its type, and the store holds the ticket's ParkingHistory,
\* with to_time unset.
C4_ParkUpdatesIndexAndStore ==
    [][\A t \in Tickets :
          park(t) =>
              LET s == tickets[t].spot
                  h == tickets'[t].parking_history
              IN /\ SpotObj(s) \notin available_spots'[spot_type(s)]
                 /\ h \in parking_history_store'
                 /\ histories'[h].to_time = None]_vars

\* C5: after TicketManager.exit(ticket) on a parked ticket the ticket's spot
\* is in the index under its type again and is available, and the ticket's
\* ParkingHistory in the store has to_time set, with to_time >= from_time.
C5_ExitRestoresSpot ==
    [][\A t \in Tickets :
          (exit(t) /\ StayOpen(t)) =>
              LET s == tickets[t].spot
                  h == tickets[t].parking_history
              IN /\ SpotObj(s) \in available_spots'[spot_type(s)]
                 /\ spot_vehicle'[s] = None
                 /\ ~has_been_booked'[s]
                 /\ h \in parking_history_store'
                 /\ histories'[h].to_time # None
                 /\ histories'[h].to_time >= histories'[h].from_time]_vars

\* C6: create_ticket(vehicle, spot) for a vehicle of the spot's type on an
\* available spot succeeds: it sets the spot's booked flag and returns a
\* Ticket for that vehicle and spot with no history and no timestamps, and
\* leaves the index and the store as they were.
C6_CreateTicketBooks ==
    [][\A v \in Vehicles, s \in Spots :
          (create_ticket(v, s) /\ vehicle_type(v) = spot_type(s) /\ is_available(s)) =>
              /\ last'.raised = "none"
              /\ has_been_booked'[s]
              /\ last'.ret = Len(tickets')
              /\ tickets' = Append(tickets, NewTicket(v, s))
              /\ UNCHANGED <<available_spots, parking_history_store>>]_vars

\* C7: create_ticket(vehicle, spot) for a vehicle whose type differs from
\* the spot's is rejected by the check of line 238 and returns no Ticket,
\* whether the spot is available or not.
C7_TypeMismatchRejected ==
    [][\A v \in Vehicles, s \in Spots :
          (create_ticket(v, s) /\ vehicle_type(v) # spot_type(s)) =>
              /\ last'.raised = "Exception"
              /\ last'.ret = None
              /\ tickets' = tickets]_vars

\* A cycle was refused a regular_car spot that was not available either.
C7_Witness ==
    /\ last.op = "create_ticket"
    /\ vehicle_type(last.vehicle) # spot_type(last.spot)
    /\ ~is_available(last.spot)
    /\ last.raised = "Exception"
    /\ last.ret = None

\* C8: when create_ticket fails, on a type mismatch or on a spot that is
\* not available, the spot's booked flag and occupant, the index and the
\* store are as before the call and no Ticket exists that did not before;
\* and every create_ticket either books the spot and returns a ticket or
\* leaves the booked flags alone.
C8_FailedCreateChangesNothing ==
    [][\A v \in Vehicles, s \in Spots :
          create_ticket(v, s) =>
              /\ (vehicle_type(v) # spot_type(s) \/ ~is_available(s)) =>
                     /\ last'.raised # "none"
                     /\ last'.ret = None
                     /\ UNCHANGED <<has_been_booked, spot_vehicle, available_spots,
                                    parking_history_store, tickets, histories>>
              /\ \/ has_been_booked'[s] /\ last'.ret # None
                 \/ UNCHANGED has_been_booked]_vars

\* A vehicle of the spot's type was refused a spot that was not available,
\* and the spot is as it was.
C8_Witness ==
    /\ last.op = "create_ticket"
    /\ vehicle_type(last.vehicle) = spot_type(last.spot)
    /\ last.raised = "Exception"
    /\ spot_vehicle[last.spot] # None
    /\ ~has_been_booked[last.spot]

\* C9: for every ticket on which exit has not completed (freshly created,
\* or parked and not exited), calculate_fee raises and returns no amount.
C9_FeeBeforeExitFails ==
    [][\A fee \in SpotFees, t \in Tickets :
          (calculate_fee(fee, t) /\ t \notin exited) =>
              (last'.raised # "none" /\ last'.ret = None)]_vars

\* C10: for a ticket parked at p and exited at e >= p, calculate_fee is
\* round((e - p) * fee_per_minute / 60 + base_fee, 2).
C10_FeeOfElapsedSeconds ==
    [][\A fee \in SpotFees, t \in Tickets :
          (/\ calculate_fee(fee, t)
           /\ StayClosed(t)
           /\ tickets[t].parked_at # None
           /\ tickets[t].exit_at >= tickets[t].parked_at) =>
              /\ last'.raised = "none"
              /\ last'.ret = fee_formula(fee, tickets[t].exit_at - tickets[t].parked_at)]_vars

\* C11: constructing the lot fails with the missing-fee-policy error of
\* line 366 when a spot's type has no policy in the FeeStructure, and
\* succeeds when every spot's type has one.
C11_LotNeedsFeePolicies ==
    [][\A fs \in FeeStructures :
          ParkingLot_init(fs) =>
              IF \E s \in Spots : ~fs[spot_type(s)]
              THEN lot' = "Exception"
              ELSE lot' = "built"]_vars

\* C15: Spot.book() on a spot that is not available (booked or occupied)
\* raises and leaves the spot's booked flag and occupant as they were.
C15_BookNeedsAvailableSpot ==
    [][\A s \in Spots :
          (SpotBook(s) /\ ~is_available(s)) =>
              /\ last'.raised # "none"
              /\ UNCHANGED <<has_been_booked, spot_vehicle>>]_vars

\* C16: once a ParkingHistory's to_time is set, no later call changes or
\* clears it, a repeated exit on its ticket included.  (The ParkingHistory
\* of ticket t is the same object before and after every step but a park
\* of t, which gives the ticket a new one.)
C16_ClosedOnce ==
    [][\A t \in Tickets :
          (t <= Len(tickets) /\ StayClosed(t) /\ ~park(t)) =>
              /\ tickets'[t].parking_history = tickets[t].parking_history
              /\ histories'[tickets[t].parking_history].to_time
                     = histories[tickets[t].parking_history].to_time]_vars

\* C18: after ParkingLot.__init__ has walked the spot locations of a lot
\* whose spot types all have a fee policy, every location's Spot object is
\* in available_spots under its type.
C18_SpotsIndexedAtConstruction ==
    [][\A fs \in FeeStructures :
          (ParkingLot_init(fs) /\ \A s \in Spots : fs[spot_type(s)]) =>
              \A s \in Spots : SpotObj(s) \in available_spots'[spot_type(s)]]_vars

\* C19: TicketManager.exit on a ticket that was never parked raises and
\* changes nothing: exit_at stays unset, the spot, the index and the store
\* are as before.
C19_ExitBeforeParkChangesNothing ==
    [][\A t \in Tickets :
          (exit(t) /\ tickets[t].parking_history = None /\ tickets[t].parked_at = None) =>
              /\ last'.raised # "none"
              /\ tickets'[t].exit_at = None
              /\ UNCHANGED <<tickets, has_been_booked, spot_vehicle, available_spots,
                             parking_history_store>>]_vars

\* C20: for a ticket that was parked and then exited, the seconds reported
\* by Ticket.calculate_total_parking_time and by the
\* get_total_parking_time of its ParkingHistory are equal, and both are
\* exit time minus park time.
C20_TicketAndHistoryAgree ==
    \A t \in 1..Len(tickets) :
        (/\ t \in exited
         /\ StayClosed(t)
         /\ tickets[t].exit_at >= tickets[t].parked_at) =>
            LET ofTicket == calculate_total_parking_time(t)
                ofHistory == get_total_parking_time(tickets[t].parking_history)
            IN /\ ofTicket.raised = "none"
               /\ ofHistory.raised = "none"
               /\ ofTicket.value = ofHistory.value
               /\ ofTicket.value = tickets[t].exit_at - tickets[t].parked_at

\* C13: an exit or a park called on a ticket that has already exited never
\* changes the occupant or the booked flag of a spot on which a different
\* ticket, not yet exited, has a stay in progress.
C13_StaleTicketLeavesSpotAlone ==
    [][\A t \in Tickets, u \in Tickets :
          (/\ t \in exited
           /\ exit(t) \/ park(t)
           /\ u # t
           /\ u <= Len(tickets)
           /\ u \notin exited
           /\ StayOpen(u)
           /\ tickets[u].spot = tickets[t].spot
           /\ spot_vehicle[tickets[u].spot] = tickets[u].vehicle) =>
              /\ spot_vehicle'[tickets[u].spot] = spot_vehicle[tickets[u].spot]
              /\ has_been_booked'[tickets[u].spot] = has_been_booked[tickets[u].spot]]_vars

\* C14: TicketManager.park(ticket) delivers the notification that takes the
\* spot out of the index and then, after it, the notification that adds
\* the ticket's ParkingHistory to the store.
C14_IndexNotifiedBeforeStore ==
    [][\A t \in Tickets :
          park(t) =>
              entry_notify(t, tickets'[t].parking_history).done
                  = <<"notify_park", "notify">>]_vars

\* C17: a park that starts a stay adds exactly one record, the stay's, to
\* the store; create_ticket and exit leave the store as it was.
C17_StoreGrowsByParksOnly ==
    [][/\ \A t \in Tickets :
             (park(t) /\ StayOpen(t)') =>
                 /\ tickets'[t].parking_history \notin parking_history_store
                 /\ parking_history_store'
                        = parking_history_store \cup {tickets'[t].parking_history}
       /\ \A t \in Tickets : exit(t) => parking_history_store' = parking_history_store
       /\ \A v \in Vehicles, s \in Spots :
             create_ticket(v, s) => parking_history_store' = parking_history_store]_vars

\* C12: when every caller of create_ticket has finished, and at least two
\* of them asked for the same available spot with a vehicle of its type,
\* exactly one of those calls returned a Ticket and each of the others
\* raised the Exception of the availability check.
C12_ExactlyOneConcurrentSuccess ==
    \A s \in Spots :
        LET asked == {c \in Callers :
                         /\ calls[c].pc = "done"
                         /\ calls[c].spot = s
                         /\ vehicle_type(calls[c].vehicle) = spot_type(s)}
            won == {c \in asked : calls[c].raised = "none" /\ calls[c].ret # None}
        IN ((\A c \in Callers : calls[c].pc = "done") /\ Cardinality(asked) >= 2) =>
               /\ Cardinality(won) = 1
               /\ \A c \in asked \ won : calls[c].raised = "Exception"

====
